---------------------------- MODULE Spec2Model ----------------------------
(***************************************************************************)
(* Session layer of oddity-rtsp-server: the per-client Session task        *)
(* (session/mod.rs) and the SessionManager with its registry and reaper    *)
(* task (session/session_manager.rs).                                      *)
(*                                                                         *)
(* Processes: the caller of the SessionManager API (one at a time: every   *)
(* API method takes &mut self), the reaper task (SessionManager::run) and  *)
(* one task per session (Session::run).  A task's position is its pc.      *)
(* The body of Session::run ends with the send of Stopped(id): the task    *)
(* has exited once that statement has run.                                 *)
(*                                                                         *)
(* The reaper takes, uses and lets go of the registry lock inside one      *)
(* statement (remove), so only the API caller holds it across steps.  Its  *)
(* None branch (every sender dropped) cannot be taken while the manager,   *)
(* which keeps session_state_tx, exists, and is left out.  stop() is the   *)
(* manager's shutdown: no API call follows it.                             *)
(***************************************************************************)
EXTENDS Naturals, Sequences, FiniteSets

\* ------------------------------------------------------------- bounds
\* Spec, the whole manager: sessions set up in one run, and packets their
\* sources yield in total.
MaxSessions == 2
MgrPackets == 1
\* SpecDelivery, the delivery loop at length: the same two numbers.
DeliverySessions == 1
MaxPackets == 3

\* SessionId values the generator can draw (two suffice for collision and reuse).
Ids == {"idA", "idB"}
NoId == "none"
SessionIx == 1..MaxSessions
NoSession == 0

VARIABLES
  lim,            \* what one run may do: [sessions, packets] (never changes)
  sessions,       \* SessionManager.sessions: id -> session (NoSession: vacant)
  sessions_lock,  \* holder of the registry mutex: "free" | "api"
  state_chan,     \* the report channel: Stopped messages not yet received
  mgr_pc,         \* position of the API caller
  mgr_id,         \* the id the current API call works on
  mgr_sess,       \* the session the current API call works on
  worker_pc,      \* position of the reaper task: "select" | "remove" | "exited"
  worker_msg,     \* the Stopped message the reaper holds
  worker_stop,    \* stop signal sent to the reaper task
  nsess,          \* session tasks spawned so far
  sid,            \* session -> its SessionId
  target,         \* session -> "udp" | "tcp" (SessionSetupTarget)
  pc,             \* session -> position of its task
  stop_req,       \* session -> stop signal sent to its task
  n_recv,         \* session -> packets recv_packet has yielded
  sent,           \* session -> buffers handed to the destination, in order
  hist            \* session -> counters of what happened to it

vars == <<lim, sessions, sessions_lock, state_chan, mgr_pc, mgr_id, mgr_sess,
          worker_pc, worker_msg, worker_stop, nsess, sid, target, pc,
          stop_req, n_recv, sent, hist>>

mgrVars == <<mgr_pc, mgr_id, mgr_sess>>
workerVars == <<worker_pc, worker_msg, worker_stop>>
taskVars == <<pc, n_recv, sent>>

\* ------------------------------------------------- external collaborators
\* The n-th packet a source delegate yields (n = 1, 2, ...).
SourcePacket(n) == n

\* The kind the muxer gives the buffer of a packet (RtpBuf::Rtp | RtpBuf::Rtcp).
BufKind(p) == IF p % 2 = 1 THEN "Rtp" ELSE "Rtcp"

\* RtpMuxer::mux on success: a buffer tagged by kind.
Mux(p) == [kind |-> BufKind(p), payload |-> p]

\* rtp_muxer::finish: the muxer's last buffer, never empty here; payload 0
\* is the payload of no source packet.
FinishOutput(s) == [kind |-> "Rtp", payload |-> 0]

\* Task::stop has returned for the task of session s: the task has exited.
TaskStopped(s) == pc[s] = "done"

\* ------------------------------------------------------------ history
NoHist == [binds_failed |-> 0, finish_calls |-> 0,
           reports |-> 0, observed |-> 0,
           teardown_returned |-> FALSE, registered |-> FALSE]

Bump(s, f) == [hist EXCEPT ![s][f] = @ + 1]

\* ------------------------------------------------------------- Init
Start ==
  /\ sessions = [i \in Ids |-> NoSession]
  /\ sessions_lock = "free"
  /\ state_chan = <<>>
  /\ mgr_pc = "idle"
  /\ mgr_id = NoId
  /\ mgr_sess = NoSession
  /\ worker_pc = "select"
  /\ worker_msg = NoId
  /\ worker_stop = FALSE
  /\ nsess = 0
  /\ sid = [s \in SessionIx |-> NoId]
  /\ target = [s \in SessionIx |-> "none"]
  /\ pc = [s \in SessionIx |-> "unspawned"]
  /\ stop_req = [s \in SessionIx |-> FALSE]
  /\ n_recv = [s \in SessionIx |-> 0]
  /\ sent = [s \in SessionIx |-> <<>>]
  /\ hist = [s \in SessionIx |-> NoHist]

Init ==
  /\ lim = [sessions |-> MaxSessions, packets |-> MgrPackets]
  /\ Start

InitDelivery ==
  /\ lim = [sessions |-> DeliverySessions, packets |-> MaxPackets]
  /\ Start

InitFair ==
  /\ lim = [sessions |-> DeliverySessions, packets |-> MgrPackets]
  /\ Start


\* ------------------------------------------------------- Session task
\* Packets the sources of sessions 1..k have yielded.
RECURSIVE TotalRecv(_)
TotalRecv(k) == IF k = 0 THEN 0 ELSE n_recv[k] + TotalRecv(k - 1)

Goto(s, p) == pc' = [pc EXCEPT ![s] = p]

\* Mutant of Dispatch: every buffer goes to the data address / channel.
DispatchAllToData(s, buf) ==
  IF target[s] = "udp"
    THEN [via |-> "socket_rtp", to |-> "rtp_remote", buf |-> buf]
    ELSE [via |-> "sender", to |-> "rtp_channel", buf |-> buf]

\* What the destination of session s receives for a muxed buffer: the UDP
\* loop sends through socket_rtp to the remote of the buffer's kind, the
\* interleaved loop frames it on the channel of the buffer's kind.
Dispatch(s, buf) ==
  IF target[s] = "udp"
    THEN [via |-> "socket_rtp",
          to |-> IF buf.kind = "Rtp" THEN "rtp_remote" ELSE "rtcp_remote",
          buf |-> buf]
    ELSE [via |-> "sender",
          to |-> IF buf.kind = "Rtp" THEN "rtp_channel" ELSE "rtcp_channel",
          buf |-> buf]

\* Mutants of AfterBindFailure: the loop is entered all the same; the task
\* returns at once, with neither drain nor report.
AfterBindFailureEntersLoop == "select"
AfterBindFailureReturns == "done"

\* Where Session::run goes when run_udp returns early on a bind failure.
AfterBindFailure == "finish"

\* Mutants of AfterMuxFailure: the task returns at once with no report; the
\* loop goes on to the next packet (continue).
AfterMuxFailureReturns == "done"
AfterMuxFailureContinues == "select"
AfterMuxFailureSkipsDrain == "report"

\* Where the loop goes when muxer.mux fails (break).
AfterMuxFailure == "finish"

\* run_udp: a bind of a local socket succeeds.
SessionBindOk(s) ==
  /\ pc[s] \in {"bind_rtp", "bind_rtcp"}
  /\ Goto(s, IF pc[s] = "bind_rtp" THEN "bind_rtcp" ELSE "select")
  /\ UNCHANGED <<lim, sessions, sessions_lock, state_chan, mgrVars, workerVars,
                 nsess, sid, target, stop_req, n_recv, sent, hist>>

\* run_udp: a bind of a local socket fails; run_udp returns.
SessionBindErr(s) ==
  /\ pc[s] \in {"bind_rtp", "bind_rtcp"}
  /\ Goto(s, AfterBindFailure)
  /\ hist' = Bump(s, "binds_failed")
  /\ UNCHANGED <<lim, sessions, sessions_lock, state_chan, mgrVars, workerVars,
                 nsess, sid, target, stop_req, n_recv, sent>>

\* select: recv_packet yields Some(packet); the packet is muxed at once.
SessionRecvPacket(s) ==
  /\ pc[s] = "select"
  /\ TotalRecv(MaxSessions) < lim.packets
  /\ n_recv' = [n_recv EXCEPT ![s] = @ + 1]
  /\ \/ Goto(s, "send")
     \/ Goto(s, AfterMuxFailure)
  /\ UNCHANGED <<lim, sessions, sessions_lock, state_chan, mgrVars, workerVars,
                 nsess, sid, target, stop_req, sent, hist>>

\* select: recv_packet yields None (source broken or exhausted).
SessionSourceNone(s) ==
  /\ pc[s] = "select"
  /\ Goto(s, "finish")
  /\ UNCHANGED <<lim, sessions, sessions_lock, state_chan, mgrVars, workerVars,
                 nsess, sid, target, stop_req, n_recv, sent, hist>>

\* Mutant of SessionWaitForStop: the stop signal is also taken while a
\* packet is on its way to the destination.
SessionWaitForStopAnywhere(s) ==
  /\ pc[s] \in {"select", "send"}
  /\ stop_req[s]
  /\ Goto(s, "finish")
  /\ UNCHANGED <<lim, sessions, sessions_lock, state_chan, mgrVars, workerVars,
                 nsess, sid, target, stop_req, n_recv, sent, hist>>

\* select: wait_for_stop completes.
SessionWaitForStop(s) ==
  /\ pc[s] = "select"
  /\ stop_req[s]
  /\ Goto(s, "finish")
  /\ UNCHANGED <<lim, sessions, sessions_lock, state_chan, mgrVars, workerVars,
                 nsess, sid, target, stop_req, n_recv, sent, hist>>

\* The muxed buffer is handed to the destination (send_to / sender.send);
\* the send succeeds (next iteration) or fails (break).
SessionSend(s) ==
  /\ pc[s] = "send"
  /\ sent' = [sent EXCEPT ![s] =
                Append(@, Dispatch(s, Mux(SourcePacket(n_recv[s]))))]
  /\ \/ Goto(s, "select")
     \/ Goto(s, "finish")
  /\ UNCHANGED <<lim, sessions, sessions_lock, state_chan, mgrVars, workerVars,
                 nsess, sid, target, stop_req, n_recv, hist>>

\* Mutant of SessionFinish: the muxer's last buffer is sent like any other.
SessionFinishSendsLast(s) ==
  /\ pc[s] = "finish"
  /\ Goto(s, "report")
  /\ hist' = Bump(s, "finish_calls")
  /\ sent' = [sent EXCEPT ![s] = Append(@, Dispatch(s, FinishOutput(s)))]
  /\ UNCHANGED <<lim, sessions, sessions_lock, state_chan, mgrVars, workerVars,
                 nsess, sid, target, stop_req, n_recv>>

\* run: rtp_muxer::finish(muxer), its output thrown away.
SessionFinish(s) ==
  /\ pc[s] = "finish"
  /\ Goto(s, "report")
  /\ hist' = Bump(s, "finish_calls")
  /\ UNCHANGED <<lim, sessions, sessions_lock, state_chan, mgrVars, workerVars,
                 nsess, sid, target, stop_req, n_recv, sent>>

\* Mutant of SessionReport: Stopped(id) is sent twice.
SessionReportTwice(s) ==
  /\ pc[s] = "report"
  /\ Goto(s, "done")
  /\ hist' = Bump(s, "reports")
  /\ state_chan' = IF worker_pc = "exited"
                     THEN state_chan
                     ELSE state_chan \o <<[id |-> sid[s], from |-> s],
                                          [id |-> sid[s], from |-> s]>>
  /\ UNCHANGED <<lim, sessions, sessions_lock, mgrVars, workerVars,
                 nsess, sid, target, stop_req, n_recv, sent>>

\* run: state_tx.send(Stopped(id)), the last statement of the task.  The
\* send fails when the reaper has exited and dropped the receiver.
SessionReport(s) ==
  /\ pc[s] = "report"
  /\ Goto(s, "done")
  /\ hist' = Bump(s, "reports")
  /\ state_chan' = IF worker_pc = "exited"
                     THEN state_chan
                     ELSE Append(state_chan, [id |-> sid[s], from |-> s])
  /\ UNCHANGED <<lim, sessions, sessions_lock, mgrVars, workerVars,
                 nsess, sid, target, stop_req, n_recv, sent>>


\* ------------------------------------------ reaper (SessionManager::run)
\* select: session_state_rx.recv() yields Some(Stopped(session_id)).
WorkerRecv ==
  /\ worker_pc = "select"
  /\ state_chan # <<>>
  /\ worker_msg' = Head(state_chan).id
  /\ state_chan' = Tail(state_chan)
  /\ worker_pc' = "remove"
  /\ hist' = Bump(Head(state_chan).from, "observed")
  /\ UNCHANGED <<lim, sessions, sessions_lock, mgrVars, worker_stop, nsess, sid,
                 target, stop_req, taskVars>>

\* Mutant of WorkerRemove: the reaper takes the report and removes nothing.
WorkerRemoveForgets ==
  /\ worker_pc = "remove"
  /\ sessions_lock = "free"
  /\ worker_msg' = NoId
  /\ worker_pc' = "select"
  /\ UNCHANGED <<lim, sessions, sessions_lock, state_chan, mgrVars, worker_stop,
                 nsess, sid, target, stop_req, taskVars, hist>>

\* Mutant of WorkerRemove: the reaper clears the whole registry.
WorkerRemoveClears ==
  /\ worker_pc = "remove"
  /\ sessions_lock = "free"
  /\ sessions' = [id \in Ids |-> NoSession]
  /\ worker_msg' = NoId
  /\ worker_pc' = "select"
  /\ UNCHANGED <<lim, sessions_lock, state_chan, mgrVars, worker_stop, nsess, sid,
                 target, stop_req, taskVars, hist>>

\* sessions.lock().await.remove(&session_id): waits for the lock, removes
\* whatever is registered under the id and lets the lock go.
WorkerRemove ==
  /\ worker_pc = "remove"
  /\ sessions_lock = "free"
  /\ sessions' = [sessions EXCEPT ![worker_msg] = NoSession]
  /\ worker_msg' = NoId
  /\ worker_pc' = "select"
  /\ UNCHANGED <<lim, sessions_lock, state_chan, mgrVars, worker_stop, nsess, sid,
                 target, stop_req, taskVars, hist>>

\* select: wait_for_stop completes; the loop breaks and the task returns,
\* dropping the receiver with whatever it still holds.
WorkerWaitForStop ==
  /\ worker_pc = "select"
  /\ worker_stop
  /\ worker_pc' = "exited"
  /\ state_chan' = <<>>
  /\ UNCHANGED <<lim, sessions, sessions_lock, mgrVars, worker_msg, worker_stop,
                 nsess, sid, target, stop_req, taskVars, hist>>

\* ----------------------------------------------------- Session handle
\* Mutant of SessionTeardownDone: the stop signal is sent and not awaited.
SessionTeardownNoWait(s) == TRUE

\* Whether Session::teardown may return: worker.stop() is awaited, so only
\* once the task has exited.
SessionTeardownDone(s) == TaskStopped(s)

\* Session::teardown is called on session s: the stop signal is sent.
SessionTeardownCall(s) ==
  /\ stop_req' = [stop_req EXCEPT ![s] = TRUE]
  /\ UNCHANGED hist

\* ------------------------------------------------ SessionManager API
\* The registry holds a session under id (get_mut(id) is Some).
Occupied(id) == sessions[id] # NoSession

\* Mutant of EntryVacant: the session is inserted whatever the entry holds.
EntryVacantAlways(id) == TRUE

\* sessions.entry(id) is Entry::Vacant.
EntryVacant(id) == sessions[id] = NoSession

\* setup_and_start: SessionId::generate() draws id, the lock is taken and
\* the entry looked up.  Occupied: Err(AlreadyRegistered).  Vacant:
\* Session::setup_and_start spawns the task with the setup's target; the
\* lock is kept.
\* Mutant of MgrSetup: the lock is let go between the occupancy check and
\* the insert.
MgrSetupUnlocked(id) ==
  /\ mgr_pc = "idle"
  /\ sessions_lock = "free"
  /\ sessions[id] = NoSession => nsess < lim.sessions
  /\ IF sessions[id] # NoSession
       THEN /\ mgr_pc' = "setup_err"
            /\ UNCHANGED <<mgr_id, mgr_sess, nsess, sid, target, pc>>
       ELSE /\ mgr_id' = id
            /\ nsess' = nsess + 1
            /\ mgr_sess' = nsess + 1
            /\ mgr_pc' = "setup_insert"
            /\ sid' = [sid EXCEPT ![nsess + 1] = id]
            /\ \E tg \in {"udp", "tcp"} :
                 /\ target' = [target EXCEPT ![nsess + 1] = tg]
                 /\ Goto(nsess + 1, IF tg = "udp" THEN "bind_rtp" ELSE "select")
  /\ UNCHANGED <<lim, sessions, sessions_lock, state_chan, workerVars, stop_req,
                 n_recv, sent, hist>>

MgrSetup(id) ==
  /\ mgr_pc = "idle"
  /\ sessions_lock = "free"
  /\ EntryVacant(id) => nsess < lim.sessions
  /\ IF ~EntryVacant(id)
       THEN /\ mgr_pc' = "setup_err"
            /\ UNCHANGED <<sessions_lock, mgr_id, mgr_sess, nsess, sid,
                           target, pc>>
       ELSE /\ sessions_lock' = "api"
            /\ mgr_id' = id
            /\ nsess' = nsess + 1
            /\ mgr_sess' = nsess + 1
            /\ mgr_pc' = "setup_insert"
            /\ sid' = [sid EXCEPT ![nsess + 1] = id]
            /\ \E tg \in {"udp", "tcp"} :
                 /\ target' = [target EXCEPT ![nsess + 1] = tg]
                 /\ Goto(nsess + 1, IF tg = "udp" THEN "bind_rtp" ELSE "select")
  /\ UNCHANGED <<lim, sessions, state_chan, workerVars, stop_req, n_recv, sent,
                 hist>>

\* setup_and_start: entry.insert(session), Ok(session_id); the lock is let go.
MgrSetupInsert ==
  /\ mgr_pc = "setup_insert"
  /\ sessions' = [sessions EXCEPT ![mgr_id] = mgr_sess]
  /\ sessions_lock' = "free"
  /\ mgr_pc' = "idle"
  /\ mgr_id' = NoId
  /\ mgr_sess' = NoSession
  /\ hist' = [hist EXCEPT ![mgr_sess].registered = TRUE]
  /\ UNCHANGED <<lim, state_chan, workerVars, nsess, sid, target, stop_req,
                 taskVars>>

\* Mutant of MgrTeardown: an id that is not registered stops every session.
MgrTeardownAbsentStopsAll(id) ==
  /\ mgr_pc = "idle"
  /\ sessions_lock = "free"
  /\ IF sessions[id] # NoSession
       THEN /\ sessions_lock' = "api"
            /\ mgr_id' = id
            /\ mgr_sess' = sessions[id]
            /\ mgr_pc' = "teardown_wait"
            /\ stop_req' = [stop_req EXCEPT ![sessions[id]] = TRUE]
       ELSE /\ mgr_pc' = "teardown_absent"
            /\ stop_req' = [s \in SessionIx |-> TRUE]
            /\ UNCHANGED <<sessions_lock, mgr_id, mgr_sess>>
  /\ UNCHANGED <<lim, sessions, state_chan, workerVars, nsess, sid, target,
                 taskVars, hist>>

\* teardown(id): the lock is taken and the session looked up.  Present:
\* session.teardown() is called under the lock.  Absent: nothing.
MgrTeardown(id) ==
  /\ mgr_pc = "idle"
  /\ sessions_lock = "free"
  /\ IF Occupied(id)
       THEN /\ sessions_lock' = "api"
            /\ mgr_id' = id
            /\ mgr_sess' = sessions[id]
            /\ mgr_pc' = "teardown_wait"
            /\ SessionTeardownCall(sessions[id])
       ELSE /\ mgr_pc' = "teardown_absent"
            /\ UNCHANGED <<sessions_lock, mgr_id, mgr_sess, stop_req, hist>>
  /\ UNCHANGED <<lim, sessions, state_chan, workerVars, nsess, sid, target,
                 taskVars>>

\* Mutant of MgrTeardownJoin: teardown(id) removes the entry itself.
MgrTeardownJoinRemoves ==
  /\ mgr_pc = "teardown_wait"
  /\ SessionTeardownDone(mgr_sess)
  /\ sessions' = [sessions EXCEPT ![mgr_id] = NoSession]
  /\ sessions_lock' = "free"
  /\ mgr_pc' = "idle"
  /\ mgr_id' = NoId
  /\ mgr_sess' = NoSession
  /\ hist' = [hist EXCEPT ![mgr_sess].teardown_returned = TRUE]
  /\ UNCHANGED <<lim, state_chan, workerVars, nsess, sid, target,
                 stop_req, taskVars>>

\* teardown(id): session.teardown() returns; the lock is let go.
MgrTeardownJoin ==
  /\ mgr_pc = "teardown_wait"
  /\ SessionTeardownDone(mgr_sess)
  /\ sessions_lock' = "free"
  /\ mgr_pc' = "idle"
  /\ mgr_id' = NoId
  /\ mgr_sess' = NoSession
  /\ hist' = [hist EXCEPT ![mgr_sess].teardown_returned = TRUE]
  /\ UNCHANGED <<lim, sessions, state_chan, workerVars, nsess, sid, target,
                 stop_req, taskVars>>

\* setup_and_start returns Err(AlreadyRegistered), or teardown(id) returns
\* having found no session.
MgrReturn ==
  /\ mgr_pc \in {"setup_err", "teardown_absent"}
  /\ mgr_pc' = "idle"
  /\ UNCHANGED <<lim, sessions, sessions_lock, state_chan, mgr_id, mgr_sess,
                 workerVars, nsess, sid, target, stop_req, taskVars, hist>>


\* Mutant of MgrStop: the lock is taken before the reaper is stopped.
MgrStopLocksFirst ==
  /\ mgr_pc = "idle"
  /\ sessions_lock = "free"
  /\ sessions_lock' = "api"
  /\ worker_stop' = TRUE
  /\ mgr_pc' = "stop_worker"
  /\ UNCHANGED <<lim, sessions, state_chan, mgr_id, mgr_sess,
                 worker_pc, worker_msg, nsess, sid, target, stop_req,
                 taskVars, hist>>

\* stop(): the stop signal is sent to the reaper task.
MgrStop ==
  /\ mgr_pc = "idle"
  /\ worker_stop' = TRUE
  /\ mgr_pc' = "stop_worker"
  /\ UNCHANGED <<lim, sessions, sessions_lock, state_chan, mgr_id, mgr_sess,
                 worker_pc, worker_msg, nsess, sid, target, stop_req,
                 taskVars, hist>>

\* stop(): worker.stop() returns once the reaper has exited; the lock is
\* taken for the drain.
MgrStopWorkerJoined ==
  /\ mgr_pc = "stop_worker"
  /\ worker_pc = "exited"
  /\ sessions_lock = "free"
  /\ sessions_lock' = "api"
  /\ mgr_pc' = "stop_drain"
  /\ UNCHANGED <<lim, sessions, state_chan, mgr_id, mgr_sess, workerVars, nsess,
                 sid, target, stop_req, taskVars, hist>>

\* stop(): drain() yields the next entry, which leaves the registry, and
\* session.teardown() is called on it.
MgrStopDrainNext(id) ==
  /\ mgr_pc = "stop_drain"
  /\ Occupied(id)
  /\ sessions' = [sessions EXCEPT ![id] = NoSession]
  /\ mgr_id' = id
  /\ mgr_sess' = sessions[id]
  /\ mgr_pc' = "stop_wait"
  /\ SessionTeardownCall(sessions[id])
  /\ UNCHANGED <<lim, sessions_lock, state_chan, workerVars, nsess, sid, target,
                 taskVars>>

\* stop(): session.teardown() returns for the drained session.
MgrStopJoin ==
  /\ mgr_pc = "stop_wait"
  /\ SessionTeardownDone(mgr_sess)
  /\ mgr_pc' = "stop_drain"
  /\ hist' = [hist EXCEPT ![mgr_sess].teardown_returned = TRUE]
  /\ UNCHANGED <<lim, sessions, sessions_lock, state_chan, mgr_id, mgr_sess,
                 workerVars, nsess, sid, target, stop_req, taskVars>>

\* Mutant of MgrStopReturn: stop() returns once the reaper has stopped,
\* without draining the registry.
MgrStopReturnNoDrain ==
  /\ mgr_pc = "stop_drain"
  /\ sessions_lock' = "free"
  /\ mgr_pc' = "stopped"
  /\ mgr_id' = NoId
  /\ mgr_sess' = NoSession
  /\ UNCHANGED <<lim, sessions, state_chan, workerVars, nsess, sid, target,
                 stop_req, taskVars, hist>>

\* stop(): the drain is over; the lock is let go and stop() returns.
MgrStopReturn ==
  /\ mgr_pc = "stop_drain"
  /\ \A id \in Ids : ~Occupied(id)
  /\ sessions_lock' = "free"
  /\ mgr_pc' = "stopped"
  /\ mgr_id' = NoId
  /\ mgr_sess' = NoSession
  /\ UNCHANGED <<lim, sessions, state_chan, workerVars, nsess, sid, target,
                 stop_req, taskVars, hist>>

\* ------------------------------------------------------ specification
SessionStep(s) ==
  \/ SessionBindOk(s)
  \/ SessionBindErr(s)
  \/ SessionRecvPacket(s)
  \/ SessionSourceNone(s)
  \/ SessionWaitForStop(s)
  \/ SessionSend(s)
  \/ SessionFinish(s)
  \/ SessionReport(s)

WorkerStep ==
  \/ WorkerRecv
  \/ WorkerRemove
  \/ WorkerWaitForStop

MgrStep ==
  \/ \E id \in Ids : MgrSetup(id)
  \/ MgrSetupInsert
  \/ \E id \in Ids : MgrTeardown(id)
  \/ MgrTeardownJoin
  \/ MgrReturn
  \/ MgrStop
  \/ MgrStopWorkerJoined
  \/ \E id \in Ids : MgrStopDrainNext(id)
  \/ MgrStopJoin
  \/ MgrStopReturn

Next ==
  \/ \E s \in SessionIx : SessionStep(s)
  \/ WorkerStep
  \/ MgrStep

Spec == Init /\ [][Next]_vars

SpecDelivery == InitDelivery /\ [][Next]_vars

\* The steps of a session task that wait for nothing but the runtime.
SessionOwnStep(s) ==
  \/ SessionBindOk(s)
  \/ SessionBindErr(s)
  \/ SessionSend(s)
  \/ SessionFinish(s)
  \/ SessionReport(s)

\* The steps by which a manager call that has begun goes on and returns.
MgrGoOn ==
  \/ MgrSetupInsert
  \/ MgrTeardownJoin
  \/ MgrReturn
  \/ MgrStopWorkerJoined
  \/ \E id \in Ids : MgrStopDrainNext(id)
  \/ MgrStopJoin
  \/ MgrStopReturn

\* Scheduling.  A spawned task that can take a step of its own (a bind, a
\* send, the drain, the report) takes it.  A session whose stop has been
\* requested takes the stop branch of its select! if that branch stays
\* ready; the source yields finitely many packets here, so weak fairness
\* is enough for it.  The reaper takes a report that waits in the channel,
\* takes its stop branch if that is ready again and again (select! picks
\* among ready branches at random), and gets the registry lock if it is
\* free again and again (the lock is a fair, queued lock).  A manager call
\* that can go on goes on.  Nothing is assumed of the source (recv_packet)
\* or of when the API is called.
Fairness ==
  /\ \A s \in SessionIx :
       /\ WF_vars(SessionOwnStep(s))
       /\ WF_vars(SessionWaitForStop(s))
  /\ WF_vars(WorkerRecv)
  /\ SF_vars(WorkerRemove)
  /\ SF_vars(WorkerWaitForStop)
  /\ WF_vars(MgrGoOn)

SpecFair == InitFair /\ [][Next]_vars /\ Fairness


\* ------------------------------------------------------------- claims
Live(s) == pc[s] \notin {"unspawned", "done"}
LeftRunning(s) == pc[s] \in {"finish", "report", "done"}
Queued(s) == \E i \in 1..Len(state_chan) : state_chan[i].from = s

\* C1: a session task sends Stopped(id) exactly once, as its last step: no
\* report before the task has exited, exactly one after, on every exit path.
C1_ReportExactlyOnce ==
  \A s \in SessionIx :
    /\ pc[s] = "done" => hist[s].reports = 1
    /\ pc[s] # "done" => hist[s].reports = 0

\* C1 witness: a session that dispatched a packet has exited and reported.
C1_Witness ==
  \E s \in SessionIx :
    pc[s] = "done" /\ Len(sent[s]) = 1 /\ hist[s].reports = 1

\* C2 as stated: the reaper observes exactly one Stopped(id) for every
\* registered session, whatever ended it: once the task of a registered
\* session has exited and its report is no longer queued, the reaper has
\* observed it once.
C2_ObservedExactlyOnce ==
  \A s \in SessionIx :
    (hist[s].registered /\ pc[s] = "done" /\ ~Queued(s))
      => hist[s].observed = 1

\* C2 amended: the reaper observes at most one Stopped(id) per session, and
\* while the reaper has not exited every session whose task has exited has
\* its one report either still queued or observed.
C2_ObservedWhileReaping ==
  \A s \in SessionIx :
    /\ hist[s].observed <= 1
    /\ (worker_pc # "exited" /\ pc[s] = "done")
         => (IF Queued(s) THEN hist[s].observed = 0 ELSE hist[s].observed = 1)

\* C2 witness: a session stopped by teardown(id) has been observed and reaped.
C2_Witness ==
  \E s \in SessionIx :
    /\ hist[s].teardown_returned
    /\ hist[s].observed = 1
    /\ worker_pc = "select"
    /\ sessions[sid[s]] = NoSession

\* C3: once teardown has returned for a session, its task has exited and
\* nothing more is handed to its destination.
C3_TeardownWaits ==
  /\ [](\A s \in SessionIx : hist[s].teardown_returned => pc[s] = "done")
  /\ [][\A s \in SessionIx :
          hist[s].teardown_returned => (pc'[s] = "done" /\ sent'[s] = sent[s])]_vars

\* C3 witness: teardown(id) has returned for a session that had dispatched.
C3_Witness ==
  \E s \in SessionIx :
    hist[s].teardown_returned /\ mgr_pc = "idle" /\ Len(sent[s]) = 1

\* C4: after stop() has returned the registry is empty and the task of
\* every session that was ever registered has exited.
C4_StopLeavesNothing ==
  mgr_pc = "stopped" =>
    /\ \A id \in Ids : sessions[id] = NoSession
    /\ \A s \in SessionIx : hist[s].registered => pc[s] = "done"

\* C4 witness: stop() has returned after one session was reaped and another
\* was drained and torn down by stop() itself.
C4_Witness ==
  /\ mgr_pc = "stopped"
  /\ \E s, u \in SessionIx :
       /\ hist[s].registered /\ hist[s].observed = 1
       /\ hist[u].registered /\ hist[u].observed = 0 /\ hist[u].teardown_returned

\* C5: a setup_and_start that draws an occupied id returns AlreadyRegistered
\* and changes neither the registry nor any session; a task is spawned only
\* under an id whose entry was vacant.
C5_CollisionLeavesAll ==
  /\ [][(mgr_pc = "idle" /\ mgr_pc' = "setup_err")
          => UNCHANGED <<sessions, state_chan, nsess, sid, target, pc,
                         stop_req, n_recv, sent, hist>>]_vars
  /\ [][nsess' # nsess
          => (sessions[mgr_id'] = NoSession /\ mgr_pc' = "setup_insert")]_vars

\* C5 witness: AlreadyRegistered is being returned while the session that
\* holds the id is still running.
C5_Witness ==
  /\ mgr_pc = "setup_err"
  /\ \E s \in SessionIx : Live(s) /\ sessions[sid[s]] = s

\* C6: no two live session tasks hold the same SessionId.
C6_LiveIdsDistinct ==
  \A s, u \in SessionIx :
    (s # u /\ Live(s) /\ Live(u)) => sid[s] # sid[u]

\* C6 witness: an id used before by a session that has exited is held by a
\* live session.
C6_Witness ==
  \E s, u \in SessionIx :
    s # u /\ sid[s] = sid[u] /\ pc[s] = "done" /\ Live(u)

\* C7: what a session hands to its destination is, in order, the muxed
\* image of a prefix of its source's packets: the i-th buffer is the mux of
\* the i-th packet, and at most the last packet received is not yet (or was
\* never) handed over.
C7_SentIsMuxedPrefix ==
  \A s \in SessionIx :
    /\ \A i \in 1..Len(sent[s]) : sent[s][i].buf = Mux(SourcePacket(i))
    /\ Len(sent[s]) <= n_recv[s]
    /\ n_recv[s] <= Len(sent[s]) + 1

\* C7 witness: a session has handed over three buffers, data, control, data.
C7_Witness ==
  \E s \in SessionIx :
    /\ Len(sent[s]) = 3
    /\ sent[s][1].buf.kind = "Rtp"
    /\ sent[s][2].buf.kind = "Rtcp"
    /\ sent[s][3].buf.kind = "Rtp"

\* C8: once a session's loop has left Running nothing more is handed to its
\* destination, and no buffer ever handed over is the output of the
\* muxer's final drain.
C8_DrainIsDiscarded ==
  /\ [](\A s \in SessionIx : \A i \in 1..Len(sent[s]) :
          sent[s][i].buf # FinishOutput(s))
  /\ [][\A s \in SessionIx : LeftRunning(s) => sent'[s] = sent[s]]_vars

\* C8 witness: a session that dispatched has drained its muxer and exited.
C8_Witness ==
  \E s \in SessionIx :
    pc[s] = "done" /\ hist[s].finish_calls = 1 /\ Len(sent[s]) >= 1

\* C9: a session one of whose UDP binds failed never invokes recv_packet
\* and never muxes or dispatches a packet.
C9_BindFailureStartsNoLoop ==
  \A s \in SessionIx :
    hist[s].binds_failed > 0 => (n_recv[s] = 0 /\ sent[s] = <<>>)

\* C9 witness: a bind of a session failed while its source still had
\* packets to yield, and the task has exited.
C9_Witness ==
  \E s \in SessionIx :
    /\ hist[s].binds_failed = 1
    /\ pc[s] = "done"
    /\ TotalRecv(MaxSessions) < lim.packets

\* C10 as stated: a session one of whose UDP binds failed never relays and
\* never sends a Stopped report.
C10_BindFailureNoReport ==
  \A s \in SessionIx :
    hist[s].binds_failed > 0
      => (n_recv[s] = 0 /\ sent[s] = <<>> /\ hist[s].reports = 0)

\* C10 amended: a session one of whose UDP binds failed never relays, and
\* its task still drains the muxer and sends its one Stopped report before
\* it exits.
C10_BindFailureStillReports ==
  \A s \in SessionIx :
    hist[s].binds_failed > 0
      => /\ n_recv[s] = 0 /\ sent[s] = <<>>
         /\ LeftRunning(s)
         /\ pc[s] = "done" => (hist[s].finish_calls = 1 /\ hist[s].reports = 1)

\* C10 witness: the report of a session whose bind failed has been observed
\* and its entry reaped.
C10_Witness ==
  \E s \in SessionIx :
    /\ hist[s].binds_failed = 1
    /\ hist[s].registered
    /\ hist[s].observed = 1
    /\ sessions[sid[s]] = NoSession
    /\ worker_pc = "select"

\* C11: teardown(id) removes no entry: the entry found at lookup is there
\* throughout the call and when it returns.  An entry leaves the registry
\* only by the reaper's remove of a reported id or by the drain of stop().
C11_TeardownRemovesNothing ==
  /\ [](mgr_pc = "teardown_wait" => sessions[mgr_id] = mgr_sess)
  /\ [][(mgr_pc = "teardown_wait" /\ mgr_pc' = "idle")
          => sessions'[mgr_id] = mgr_sess]_vars
  /\ [][\A id \in Ids :
          (sessions[id] # NoSession /\ sessions'[id] # sessions[id])
            => \/ worker_pc = "remove" /\ worker_msg = id /\ worker_pc' = "select"
               \/ mgr_pc = "stop_drain" /\ mgr_pc' = "stop_wait"]_vars

\* C11 witness: teardown(id) has returned and the entry of the session it
\* stopped is still in the registry.
C11_Witness ==
  \E s \in SessionIx :
    /\ hist[s].teardown_returned
    /\ mgr_pc = "idle"
    /\ sessions[sid[s]] = s

\* C12: teardown(id) of an id that is not registered does nothing: the
\* registry, every session task, every stop signal, the reports and the
\* reaper are as before, and the call returns.  A stop signal is sent by
\* teardown(id) only to the session registered under id.
C12_AbsentTeardownIsNoOp ==
  /\ [][(mgr_pc = "idle" /\ mgr_pc' = "teardown_absent")
          => UNCHANGED <<sessions, sessions_lock, stop_req, state_chan,
                         workerVars, nsess, sid, target, taskVars, hist>>]_vars
  /\ [][(mgr_pc = "teardown_absent" /\ mgr_pc' # "teardown_absent")
          => /\ mgr_pc' = "idle"
             /\ UNCHANGED <<sessions, sessions_lock, stop_req, state_chan,
                            workerVars, nsess, sid, target, taskVars,
                            hist>>]_vars
  /\ [][(mgr_pc = "idle" /\ mgr_pc' = "teardown_wait")
          => /\ sessions[mgr_id'] = mgr_sess'
             /\ mgr_sess' # NoSession
             /\ \A s \in SessionIx \ {mgr_sess'} :
                  stop_req'[s] = stop_req[s]]_vars

\* C12 witness: a teardown of an absent id is returning while a session
\* that was not asked to stop is registered and delivering.
C12_Witness ==
  /\ mgr_pc = "teardown_absent"
  /\ \E s \in SessionIx :
       /\ pc[s] = "send"
       /\ ~stop_req[s]
       /\ sessions[sid[s]] = s

\* C13: a step of one session's task, a failure included, changes nothing
\* of any other session, of the registry, of the reaper or of the manager;
\* what it gives to the outside is at most its own Stopped(id) report.  The
\* reaper's remove for a report changes the entry of the reported id only,
\* and that entry is the one of the session that reported.
C13_FailureIsContained ==
  /\ [][\A s \in SessionIx :
          (pc[s] # "unspawned" /\ pc'[s] # pc[s])
            => /\ \A u \in SessionIx \ {s} :
                    /\ pc'[u] = pc[u]
                    /\ n_recv'[u] = n_recv[u]
                    /\ sent'[u] = sent[u]
                    /\ hist'[u] = hist[u]
               /\ UNCHANGED <<sessions, sessions_lock, mgrVars, workerVars,
                              stop_req, target, sid, nsess>>
               /\ \/ state_chan' = state_chan
                  \/ state_chan' = Append(state_chan,
                                          [id |-> sid[s], from |-> s])]_vars
  /\ [][(worker_pc = "remove" /\ worker_pc' = "select")
          => \A id \in Ids :
               sessions'[id] # sessions[id]
                 => /\ id = worker_msg
                    /\ pc[sessions[id]] = "done"
                    /\ hist[sessions[id]].observed = 1]_vars

\* C13 witness: one session failed to bind and its entry has been reaped,
\* while the other session is still registered and delivering, the reaper
\* is back at its select and the manager is idle.
C13_Witness ==
  \E s \in SessionIx, u \in SessionIx :
    /\ hist[s].binds_failed = 1
    /\ hist[s].observed = 1
    /\ sessions[sid[s]] = NoSession
    /\ pc[u] = "send"
    /\ sessions[sid[u]] = u
    /\ worker_pc = "select"
    /\ mgr_pc = "idle"

\* The order of a task's positions: Running (binds, select, send), then
\* Draining (finish), then Stopped (report, done).
C14_PhaseOrder ==
  { <<"unspawned", "bind_rtp">>, <<"unspawned", "select">>,
    <<"bind_rtp", "bind_rtcp">>, <<"bind_rtp", "finish">>,
    <<"bind_rtcp", "select">>, <<"bind_rtcp", "finish">>,
    <<"select", "send">>, <<"select", "finish">>,
    <<"send", "select">>, <<"send", "finish">>,
    <<"finish", "report">>, <<"report", "done">> }

\* C14: every task goes Running -> Draining -> Stopped: finish has been
\* called exactly once when the task is at or past its report and not
\* before, the report has been sent exactly once when the task has exited
\* and not before, nothing is dispatched once the task has left its loop,
\* and an exited task does nothing more.
C14_RunDrainStop ==
  /\ [](\A s \in SessionIx :
          /\ hist[s].finish_calls = IF pc[s] \in {"report", "done"} THEN 1 ELSE 0
          /\ hist[s].reports = IF pc[s] = "done" THEN 1 ELSE 0)
  /\ [][\A s \in SessionIx :
          /\ pc'[s] # pc[s] => <<pc[s], pc'[s]>> \in C14_PhaseOrder
          /\ pc[s] \in {"finish", "report", "done"}
               => sent'[s] = sent[s] /\ n_recv'[s] = n_recv[s]
          /\ pc[s] = "done"
               => /\ pc'[s] = "done"
                  /\ hist'[s].finish_calls = hist[s].finish_calls
                  /\ hist'[s].reports = hist[s].reports]_vars

\* C14 witness: a task that dispatched two buffers has drained once,
\* reported once and exited.
C14_Witness ==
  \E s \in SessionIx :
    /\ pc[s] = "done"
    /\ Len(sent[s]) = 2
    /\ hist[s].finish_calls = 1
    /\ hist[s].reports = 1

\* C15: a stop is taken at the select point only.  A task that holds a
\* muxed packet leaves that position only by handing the packet to the
\* destination, stop requested or not; a task that leaves its loop from
\* anywhere but the select point does so by a failed bind or after a
\* dispatch attempt.
C15_StopOnlyAtSelect ==
  [][\A s \in SessionIx :
       /\ (pc[s] = "send" /\ pc'[s] # "send")
            => /\ pc'[s] \in {"select", "finish"}
               /\ Len(sent'[s]) = Len(sent[s]) + 1
               /\ sent'[s][Len(sent'[s])].buf.payload = n_recv[s]
       /\ (pc[s] \in {"bind_rtp", "bind_rtcp"} /\ pc'[s] = "finish")
            => hist'[s].binds_failed = hist[s].binds_failed + 1
       /\ (pc[s] = "select" /\ pc'[s] = "send")
            => n_recv'[s] = n_recv[s] + 1 /\ sent'[s] = sent[s]]_vars

\* C15 witness: teardown(id) has signalled the stop and waits, while the
\* task holds a muxed packet that it has not dispatched yet.
C15_Witness ==
  /\ mgr_pc = "teardown_wait"
  /\ stop_req[mgr_sess]
  /\ pc[mgr_sess] = "send"
  /\ Len(sent[mgr_sess]) = n_recv[mgr_sess] - 1

\* C16: every buffer handed over went to the channel of its kind: over UDP
\* a data buffer to the remote data address and a control buffer to the
\* remote control address, interleaved a data buffer on the data channel id
\* and a control buffer on the control channel id; the destination of a
\* session is fixed when it is set up and never changes.
C16_DispatchByKind ==
  /\ [](\A s \in SessionIx : \A i \in 1..Len(sent[s]) :
          /\ target[s] \in {"udp", "tcp"}
          /\ sent[s][i].buf.kind \in {"Rtp", "Rtcp"}
          /\ (target[s] = "udp" /\ sent[s][i].buf.kind = "Rtp")
               => sent[s][i].to = "rtp_remote"
          /\ (target[s] = "udp" /\ sent[s][i].buf.kind = "Rtcp")
               => sent[s][i].to = "rtcp_remote"
          /\ (target[s] = "tcp" /\ sent[s][i].buf.kind = "Rtp")
               => sent[s][i].to = "rtp_channel" /\ sent[s][i].via = "sender"
          /\ (target[s] = "tcp" /\ sent[s][i].buf.kind = "Rtcp")
               => sent[s][i].to = "rtcp_channel" /\ sent[s][i].via = "sender")
  /\ [][\A s \in SessionIx :
          pc[s] # "unspawned" => target'[s] = target[s]]_vars

\* C16 witness: a UDP session has sent a data and then a control buffer,
\* the control buffer to the remote control address.
C16_Witness ==
  \E s \in SessionIx :
    /\ target[s] = "udp"
    /\ Len(sent[s]) >= 2
    /\ sent[s][1].to = "rtp_remote"
    /\ sent[s][2].buf.kind = "Rtcp"
    /\ sent[s][2].to = "rtcp_remote"

\* C17 (as stated): every id in the registry denotes a session whose task
\* has not returned yet.
C17_NoEntryForExited ==
  \A id \in Ids :
    sessions[id] # NoSession => pc[sessions[id]] # "done"

\* C17 (amended): every id in the registry denotes the session that was
\* spawned under that id, and if its task has returned then its Stopped
\* report is still queued, or is in the reaper's hands waiting for the
\* remove, or the reaper has exited.
C17_EntryLiveOrUnreaped ==
  \A id \in Ids :
    sessions[id] # NoSession
      => /\ sid[sessions[id]] = id
         /\ pc[sessions[id]] # "unspawned"
         /\ pc[sessions[id]] = "done"
              => \/ \E i \in 1..Len(state_chan) :
                      state_chan[i] = [id |-> id, from |-> sessions[id]]
                 \/ worker_pc = "remove" /\ worker_msg = id
                 \/ worker_pc = "exited"

\* C17 witness: the registry holds the entry of a task that has returned on
\* its own, its report still queued for a reaper that is running, while no
\* manager call is in progress.
C17_Witness ==
  \E id \in Ids :
    /\ sessions[id] # NoSession
    /\ pc[sessions[id]] = "done"
    /\ ~stop_req[sessions[id]]
    /\ Queued(sessions[id])
    /\ worker_pc = "select"
    /\ mgr_pc = "idle"

\* C18: Session::teardown is called at most once on a session: whenever
\* teardown(id) or the drain of stop() calls it, that session has not been
\* asked to stop before.
C18_TeardownAtMostOnce ==
  [][(mgr_pc' \in {"teardown_wait", "stop_wait"} /\ mgr_pc' # mgr_pc)
       => ~stop_req[mgr_sess']]_vars

=============================================================================
